---- MODULE Spec2Model ----
(***************************************************************************)
(* Model of the habistat desktop shell (src-tauri/src/lib.rs, main.rs).   *)
(*                                                                         *)
(* The process entry point calls run(); run() builds the application       *)
(* shell (default builder, link-opener plugin, OS-info plugin, invoke      *)
(* handler holding the single command get_os), starts the run loop and     *)
(* unwraps its result with expect().  While the run loop is running the    *)
(* front end issues command invocations by name, which the shell           *)
(* dispatches to the registered handler.                                   *)
(***************************************************************************)
EXTENDS Integers, Sequences, FiniteSets, TLC

\* ------------------------------------------------------------------ bounds
\* Number of front-end invocation slots (each is used for one invocation).
MaxReq == 3

ReqIds == 1..MaxReq

\* ------------------------------------------------- values of the environment
\* Values std::env::consts::OS takes on the platforms the shell is built for.
OSIdentifiers == {"linux", "windows", "macos"}

\* Command names the front end may ask for: the registered one and one that
\* no handler was registered for.
Commands == {"get_os", "open_devtools"}

\* Argument payloads a front-end invocation may carry.
ArgPayloads == {"none", "verbose"}

\* Exit status of a Rust process whose main thread panicked.
PanicExitCode == 101

\* Message handed to expect() in run().
ExpectMessage == "error while running tauri application"

\* The bootstrap steps of run(), in source order.
BootstrapOrder == <<"default", "opener", "os", "invoke_handler", "run">>

NoResponse == [kind |-> "none", value |-> ""]

\* A slot the front end has not used yet.  conc records, once the slot is
\* served, whether another invocation was in flight at that moment.
IdleRequest ==
    [st |-> "idle", cmd |-> "get_os", args |-> "none", conc |-> FALSE,
     resp |-> NoResponse]

VARIABLES
    os,         \* std::env::consts::OS of the build target the process runs on
    release,    \* TRUE iff built without debug_assertions
    pc,         \* position of the main thread
    runCalls,   \* number of times run() has been entered
    builder,    \* the tauri::Builder: ordered plugins and registered commands
    steps,      \* bootstrap steps performed so far, in order
    loop,       \* run loop: "none", "running", "failed", "exited"
    runResult,  \* value returned by Builder::run: "none", "Ok", "Err"
    stderr,     \* text written to the standard error stream
    exitCode,   \* process exit status, -1 while the process is alive
    reqs        \* front-end invocations, by slot

vars == <<os, release, pc, runCalls, builder, steps, loop, runResult,
          stderr, exitCode, reqs>>

\* ------------------------------------------------------------- the command
\* fn get_os() -> String { std::env::consts::OS.to_string() }
get_os_normalized == IF os = "macos" THEN "darwin" ELSE os

get_os_stateful ==
    IF \E q \in ReqIds : reqs[q].st = "done" THEN "unknown" ELSE os

get_os == os

\* generate_handler![get_os]: the invoke handler resolves the command by
\* name; get_os declares no parameter, so nothing of the payload is read.
invoke_rejecting_args(handlers, cmd, args) ==
    IF cmd \in handlers /\ args = "none"
    THEN [kind |-> "ok", value |-> get_os]
    ELSE [kind |-> "err", value |-> "rejected"]

invoke(handlers, cmd, args) ==
    IF cmd \in handlers
    THEN [kind |-> "ok", value |-> get_os]
    ELSE [kind |-> "err", value |-> "command not found"]

\* #![cfg_attr(not(debug_assertions), windows_subsystem = "windows")]:
\* a release build for Windows is a GUI-subsystem program with no console.
HasConsole == ~(release /\ os = "windows")

\* --------------------------------------------------------------------- Init
Init ==
    /\ os \in OSIdentifiers
    /\ release \in BOOLEAN
    /\ pc = "main"
    /\ runCalls = 0
    /\ builder = [created |-> FALSE, plugins |-> <<>>, handlers |-> {}]
    /\ steps = <<>>
    /\ loop = "none"
    /\ runResult = "none"
    /\ stderr = ""
    /\ exitCode = -1
    /\ reqs = [r \in ReqIds |-> IdleRequest]

\* ------------------------------------------------------------ main and run
\* main: habistat_lib::run()
CallRun ==
    /\ pc = "main"
    /\ pc' = "b0"
    /\ runCalls' = runCalls + 1
    /\ UNCHANGED <<os, release, builder, steps, loop, runResult, stderr,
                   exitCode, reqs>>

\* tauri::Builder::default()
BuilderDefault ==
    /\ pc = "b0"
    /\ pc' = "b1"
    /\ builder' = [created |-> TRUE, plugins |-> <<>>, handlers |-> {}]
    /\ steps' = Append(steps, "default")
    /\ UNCHANGED <<os, release, runCalls, loop, runResult, stderr,
                   exitCode, reqs>>

\* .plugin(tauri_plugin_opener::init())
PluginOpenerMisordered ==
    /\ pc = "b1"
    /\ pc' = "b2"
    /\ builder' = [builder EXCEPT !.plugins = Append(@, "os")]
    /\ steps' = Append(steps, "os")
    /\ UNCHANGED <<os, release, runCalls, loop, runResult, stderr,
                   exitCode, reqs>>

PluginOpener ==
    /\ pc = "b1"
    /\ pc' = "b2"
    /\ builder' = [builder EXCEPT !.plugins = Append(@, "opener")]
    /\ steps' = Append(steps, "opener")
    /\ UNCHANGED <<os, release, runCalls, loop, runResult, stderr,
                   exitCode, reqs>>

\* .plugin(tauri_plugin_os::init())
PluginOsSkipped ==
    /\ pc = "b2"
    /\ pc' = "b3"
    /\ steps' = Append(steps, "os")
    /\ UNCHANGED <<os, release, runCalls, builder, loop, runResult, stderr,
                   exitCode, reqs>>

PluginOs ==
    /\ pc = "b2"
    /\ pc' = "b3"
    /\ builder' = [builder EXCEPT !.plugins = Append(@, "os")]
    /\ steps' = Append(steps, "os")
    /\ UNCHANGED <<os, release, runCalls, loop, runResult, stderr,
                   exitCode, reqs>>

\* .invoke_handler(tauri::generate_handler![get_os])
InvokeHandler ==
    /\ pc = "b3"
    /\ pc' = "b4"
    /\ builder' = [builder EXCEPT !.handlers = {"get_os"}]
    /\ steps' = Append(steps, "invoke_handler")
    /\ UNCHANGED <<os, release, runCalls, loop, runResult, stderr,
                   exitCode, reqs>>

\* .run(tauri::generate_context!()), the shell starts: the call blocks the
\* main thread inside the run loop.
RunLoopStartNonBlocking ==
    /\ pc = "b4"
    /\ pc' = "b5"
    /\ loop' = "running"
    /\ runResult' = "Ok"
    /\ steps' = Append(steps, "run")
    /\ UNCHANGED <<os, release, runCalls, builder, stderr, exitCode, reqs>>

RunLoopStart ==
    /\ pc = "b4"
    /\ pc' = "in_run"
    /\ loop' = "running"
    /\ steps' = Append(steps, "run")
    /\ UNCHANGED <<os, release, runCalls, builder, runResult, stderr,
                   exitCode, reqs>>

\* .run(tauri::generate_context!()), the shell fails to start: Err(..)
RunLoopFail ==
    /\ pc = "b4"
    /\ pc' = "b5"
    /\ loop' = "failed"
    /\ runResult' = "Err"
    /\ steps' = Append(steps, "run")
    /\ UNCHANGED <<os, release, runCalls, builder, stderr, exitCode, reqs>>

\* The application exits: the run loop ends.  Either .run(..) returns Ok(())
\* to run(), or the framework's event loop ends the process itself with
\* status 0 without returning.
AppExit ==
    /\ pc = "in_run"
    /\ loop = "running"
    /\ loop' = "exited"
    /\ \/ /\ pc' = "b5"
          /\ runResult' = "Ok"
          /\ UNCHANGED exitCode
       \/ /\ pc' = "terminated"
          /\ exitCode' = 0
          /\ UNCHANGED runResult
    /\ UNCHANGED <<os, release, runCalls, builder, steps, stderr, reqs>>

\* .expect("error while running tauri application")
Expect ==
    /\ pc = "b5"
    /\ IF runResult = "Err"
       THEN /\ stderr' = ExpectMessage
            /\ exitCode' = PanicExitCode
            /\ pc' = "terminated"
       ELSE /\ pc' = "run_returned"
            /\ UNCHANGED <<stderr, exitCode>>
    /\ UNCHANGED <<os, release, runCalls, builder, steps, loop, runResult,
                   reqs>>

\* main returns after run() returned
MainReturn ==
    /\ pc = "run_returned"
    /\ pc' = "terminated"
    /\ exitCode' = 0
    /\ UNCHANGED <<os, release, runCalls, builder, steps, loop, runResult,
                   stderr, reqs>>

\* ------------------------------------------------------------ the front end
\* The front end, which lives inside the running shell, invokes a command
\* by name with some payload.
Invoke(r, cmd, args) ==
    /\ loop = "running"
    /\ reqs[r].st = "idle"
    /\ reqs' = [reqs EXCEPT ![r] = [st |-> "pending", cmd |-> cmd,
                                    args |-> args, conc |-> FALSE,
                                    resp |-> NoResponse]]
    /\ UNCHANGED <<os, release, pc, runCalls, builder, steps, loop,
                   runResult, stderr, exitCode>>

OthersPending(r) == \E q \in ReqIds \ {r} : reqs[q].st = "pending"

\* The run loop dispatches a received invocation to the invoke handler and
\* sends the response back.
ServeExclusive(r) ==
    /\ loop = "running"
    /\ reqs[r].st = "pending"
    /\ reqs' = [reqs EXCEPT ![r].st = "done",
                  ![r].conc = OthersPending(r),
                  ![r].resp =
                     IF OthersPending(r)
                     THEN [kind |-> "err", value |-> "busy"]
                     ELSE invoke(builder.handlers, reqs[r].cmd, reqs[r].args)]
    /\ UNCHANGED <<os, release, pc, runCalls, builder, steps, loop,
                   runResult, stderr, exitCode>>

ServeUnregistering(r) ==
    /\ loop = "running"
    /\ reqs[r].st = "pending"
    /\ reqs' = [reqs EXCEPT ![r].st = "done",
                  ![r].conc = OthersPending(r),
                  ![r].resp = invoke(builder.handlers, reqs[r].cmd, reqs[r].args)]
    /\ builder' = [builder EXCEPT !.handlers = {}]
    /\ UNCHANGED <<os, release, pc, runCalls, steps, loop,
                   runResult, stderr, exitCode>>

ServeBlocking(r) ==
    /\ loop = "running"
    /\ reqs[r].st = "pending"
    /\ reqs[r].cmd # "get_os"
    /\ reqs' = [reqs EXCEPT ![r].st = "done",
                  ![r].conc = OthersPending(r),
                  ![r].resp = invoke(builder.handlers, reqs[r].cmd, reqs[r].args)]
    /\ UNCHANGED <<os, release, pc, runCalls, builder, steps, loop,
                   runResult, stderr, exitCode>>

Serve(r) ==
    /\ loop = "running"
    /\ reqs[r].st = "pending"
    /\ reqs' = [reqs EXCEPT ![r].st = "done",
                  ![r].conc = OthersPending(r),
                  ![r].resp = invoke(builder.handlers, reqs[r].cmd, reqs[r].args)]
    /\ UNCHANGED <<os, release, pc, runCalls, builder, steps, loop,
                   runResult, stderr, exitCode>>

\* --------------------------------------------------------------------- Next
Next ==
    \/ CallRun
    \/ BuilderDefault
    \/ PluginOpener
    \/ PluginOs
    \/ InvokeHandler
    \/ RunLoopStart
    \/ RunLoopFail
    \/ AppExit
    \/ Expect
    \/ MainReturn
    \/ \E r \in ReqIds, cmd \in Commands, args \in ArgPayloads : Invoke(r, cmd, args)
    \/ \E r \in ReqIds : Serve(r)

Spec == Init /\ [][Next]_vars

\* The run loop handles every invocation it has received.
FairSpec == Spec /\ \A r \in ReqIds : WF_vars(Serve(r))

\* ============================================================== properties
GetOsDone(r) == reqs[r].st = "done" /\ reqs[r].cmd = "get_os"

GetOsPending(r) == reqs[r].st = "pending" /\ reqs[r].cmd = "get_os"

\* get_os can be invoked by the front end and resolves to its handler.
GetOsInvokable == loop = "running" /\ "get_os" \in builder.handlers

\* All five bootstrap steps are done and the run loop did start.
BootstrapComplete == Len(steps) = Len(BootstrapOrder) /\ loop # "failed"

IsPrefix(s, t) == Len(s) <= Len(t) /\ \A i \in 1..Len(s) : s[i] = t[i]

Occurrences(s, x) == Cardinality({i \in 1..Len(s) : s[i] = x})

\* The panic message of expect() can be seen: it was written and the
\* process has a console to show it on.
DiagnosticVisible == stderr # "" /\ HasConsole

\* C1: on every host platform, a completed get_os invocation returned
\* exactly the platform identifier of the host (std::env::consts::OS,
\* unmapped), which is non-empty and one of the recognized identifiers.
C1_ReturnsPlatformIdentifier ==
    \A r \in ReqIds :
        GetOsDone(r) =>
            /\ reqs[r].resp.kind = "ok"
            /\ reqs[r].resp.value = os
            /\ reqs[r].resp.value # ""
            /\ reqs[r].resp.value \in OSIdentifiers

C1_Witness ==
    \E r \in ReqIds : GetOsDone(r) /\ reqs[r].resp.value = "macos"

\* C2: get_os is idempotent: all completed get_os invocations of one
\* process returned the identical string, whatever other invocations
\* happened before or in between.
C2_Idempotent ==
    \A r1, r2 \in ReqIds :
        GetOsDone(r1) /\ GetOsDone(r2)
            => reqs[r1].resp.value = reqs[r2].resp.value

C2_Witness ==
    \E r1, r2, r3 \in ReqIds :
        /\ r1 # r2
        /\ GetOsDone(r1) /\ GetOsDone(r2)
        /\ reqs[r3].st = "done" /\ reqs[r3].cmd # "get_os"

\* C3: get_os is safe under concurrent invocation: an invocation that was
\* served while other invocations were in flight ended without an error
\* and returned the platform identifier of the host.
C3_ConcurrentSafe ==
    \A r \in ReqIds :
        GetOsDone(r) /\ reqs[r].conc
            => reqs[r].resp = [kind |-> "ok", value |-> os]

C3_Witness ==
    \E r1, r2 \in ReqIds :
        /\ r1 # r2
        /\ GetOsDone(r1) /\ reqs[r1].conc
        /\ GetOsDone(r2) /\ reqs[r2].conc

\* C4: bootstrap gating: before bootstrap completes get_os is not
\* invokable and no invocation was issued; as soon as the run loop runs
\* get_os is invokable (any free slot can issue it); and wherever get_os is
\* invokable both the link-opener and the OS-info plugin are registered.
C4_BootstrapGating ==
    /\ ~BootstrapComplete =>
          /\ ~GetOsInvokable
          /\ \A r \in ReqIds : reqs[r].st = "idle"
          /\ \A r \in ReqIds : ~ENABLED Invoke(r, "get_os", "none")
    /\ loop = "running" =>
          /\ GetOsInvokable
          /\ \A r \in ReqIds :
                reqs[r].st = "idle" => ENABLED Invoke(r, "get_os", "none")
    /\ GetOsInvokable =>
          {"opener", "os"} \subseteq {builder.plugins[i] : i \in 1..Len(builder.plugins)}

C4_Witness ==
    /\ GetOsInvokable
    /\ \A r \in ReqIds : reqs[r].st = "idle"

\* C5: run() performs its five steps in source order, each once and none
\* skipped: default builder, link-opener plugin, OS-info plugin, invoke
\* handler with get_os, run loop.
C5_BootstrapOrder ==
    /\ IsPrefix(steps, BootstrapOrder)
    /\ \A i \in 1..Len(BootstrapOrder) : Occurrences(steps, BootstrapOrder[i]) <= 1
    /\ loop # "none" => steps = BootstrapOrder
    /\ IsPrefix(builder.plugins, <<"opener", "os">>)
    /\ Len(steps) >= 1 <=> builder.created
    /\ Len(steps) >= 2 <=> Len(builder.plugins) >= 1
    /\ Len(steps) >= 3 <=> Len(builder.plugins) >= 2
    /\ Len(steps) >= 4 <=> builder.handlers = {"get_os"}
    /\ Len(steps) >= 5 <=> loop # "none"

C5_Witness == steps = BootstrapOrder /\ loop = "running"

\* C6: if starting the run loop fails, the process terminates with a
\* visible diagnostic message and a non-zero exit status, the start is not
\* retried and no get_os invocation is ever served.
C6_FatalStartup ==
    /\ (runResult = "Err" /\ pc = "terminated")
          => DiagnosticVisible /\ exitCode # 0 /\ exitCode # -1
    /\ loop = "failed"
          => /\ Occurrences(steps, "run") = 1
             /\ \A r \in ReqIds : reqs[r].st = "idle"

C8_NoSideEffects ==
    [][\A r \in ReqIds :
          (GetOsPending(r) /\ reqs'[r].st = "done") =>
              /\ UNCHANGED <<os, release, pc, runCalls, builder, steps, loop,
                             runResult, stderr, exitCode>>
              /\ \A q \in ReqIds \ {r} : reqs'[q] = reqs[q]
              /\ reqs'[r].cmd = reqs[r].cmd
              /\ reqs'[r].args = reqs[r].args]_vars

C8_Witness ==
    \E r1, r2, r3 \in ReqIds :
        /\ GetOsDone(r1)
        /\ GetOsPending(r2)
        /\ reqs[r3].st = "idle"
        /\ GetOsInvokable

\* C9: main only calls run(), once; the bootstrap runs once per process;
\* while the run loop is running the main thread is blocked inside run()
\* and the process has not exited; run() has returned only after the
\* application exited.
C9_RunOnceAndBlocks ==
    /\ runCalls <= 1
    /\ pc = "main" <=> runCalls = 0
    /\ Occurrences(steps, "default") <= 1
    /\ loop = "running" => pc = "in_run" /\ exitCode = -1 /\ runResult = "none"
    /\ pc = "run_returned" => loop = "exited"
    /\ exitCode = 0 => loop = "exited"

C9_Witness == pc = "terminated" /\ exitCode = 0 /\ runCalls = 1

\* C10: one fixed policy for supplied arguments: the arguments are
\* ignored.  Any two completed get_os invocations have the same outcome
\* kind and the same returned string, whatever arguments each supplied.
C10_ArgumentsIgnored ==
    \A r1, r2 \in ReqIds :
        (GetOsDone(r1) /\ GetOsDone(r2) /\ reqs[r1].args # reqs[r2].args)
            => /\ reqs[r1].resp.kind = reqs[r2].resp.kind
               /\ reqs[r1].resp.value = reqs[r2].resp.value

C10_Witness ==
    \E r1, r2 \in ReqIds :
        /\ GetOsDone(r1) /\ reqs[r1].args = "none"
        /\ GetOsDone(r2) /\ reqs[r2].args = "verbose"
        /\ reqs[r1].resp.kind = "ok"

====
